---- MODULE Spec2Model ----
(***************************************************************************)
(* State-machine model of scanner.py: input parsing (parse_ports,          *)
(* expand_range, expand_subnet), host discovery (is_host_up), the threaded *)
(* TCP connect scan (scan_tcp_ports / _check_port), the nmap collaborator  *)
(* (nmap_service_and_os) and the main loop that assembles HostInfo records. *)
(***************************************************************************)
EXTENDS Integers, Sequences, FiniteSets, TLC

VARIABLES
    args,          \* argparse namespace: [ports, host, workers]
    platform,      \* operating system the interpreter runs on
    pc,            \* position of main()
    ports,         \* main: parsed port list
    targets,       \* main: expanded target list
    t_i,           \* main: index of the for-loop over targets
    host,          \* main: HostInfo being filled
    dns,           \* reply pending for the gethostbyaddr call in flight
    m_open_ports,  \* main: open_ports returned by scan_tcp_ports
    nm,            \* main: [status, os_guess, svc_map] of the last nmap call
    results,       \* main: list of HostInfo
    report,        \* what print_results was given
    gate,          \* per processed target: "invalid", "down" or "up"
    scanned,       \* targets scan_tcp_ports was called for
    net,           \* TRUE once any network call has been issued
    lv_pc,         \* position of is_host_up
    lv_ip,         \* is_host_up: ip argument
    lv_i,          \* is_host_up: index into common_ports
    lv_res,        \* is_host_up: res of the last connect_ex, or the exception
    lv_reply,      \* what the peer did on the last attempt of is_host_up
    lv_ret,        \* is_host_up: returned value
    sc_pc,         \* position of scan_tcp_ports
    sc_ip,         \* scan_tcp_ports: ip argument
    sc_ports,      \* scan_tcp_ports: ports argument
    sc_workers,    \* scan_tcp_ports: workers argument
    max_workers,   \* scan_tcp_ports: pool size
    futures,       \* scan_tcp_ports: one future per submitted port
    yielded,       \* futures as_completed has yielded, in order
    open_ports,    \* scan_tcp_ports: open_ports list
    sc_exc,        \* an exception is propagating out of the with block
    sc_ret         \* scan_tcp_ports: returned list

argVars  == <<args, platform>>
mainVars == <<pc, ports, targets, t_i, host, dns, m_open_ports, nm, results,
              report, gate, scanned>>
liveVars == <<lv_pc, lv_ip, lv_i, lv_res, lv_reply, lv_ret>>
scanVars == <<sc_pc, sc_ip, sc_ports, sc_workers, max_workers, futures,
              yielded, open_ports, sc_exc, sc_ret>>
vars == <<args, platform, pc, ports, targets, t_i, host, dns, m_open_ports,
          nm, results, report, gate, scanned, net, lv_pc, lv_ip,
          lv_i, lv_res, lv_reply, lv_ret, sc_pc, sc_ip, sc_ports, sc_workers, max_workers, futures,
          yielded, open_ports, sc_exc, sc_ret>>

(***************************************************************************)
(* Bounds of the explored inputs.                                          *)
(***************************************************************************)
\* longest comma list of a port spec
MaxTokens == 3
\* widest dash range of a port spec (b - a)
MaxSpan == 2
\* largest --workers value
MaxWorkersArg == 2
\* host bits of the widest subnet (prefix >= 32 - MaxHostBits)
MaxHostBits == 3

(***************************************************************************)
(* Generic helpers: Python values.                                         *)
(***************************************************************************)
None == "None"

Min(a, b) == IF a < b THEN a ELSE b

Max(a, b) == IF a > b THEN a ELSE b

Range(s) == {s[i] : i \in 1..Len(s)}

\* [a, a+1, ..., b]; empty when a > b (Python range(a, b + 1))
RangeList(a, b) == [i \in 1..Max(0, b - a + 1) |-> a + i - 1]

RECURSIVE Pow2(_)
Pow2(n) == IF n <= 0 THEN 1 ELSE 2 * Pow2(n - 1)

\* insertion of x into an ascending list, after equal elements
RECURSIVE Insert(_, _)
Insert(s, x) ==
    IF s = <<>> THEN <<x>>
    ELSE IF x < Head(s) THEN <<x>> \o s
    ELSE <<Head(s)>> \o Insert(Tail(s), x)

\* list.sort() / sorted(): ascending, duplicates kept
RECURSIVE SortList(_)
SortList(s) ==
    IF s = <<>> THEN <<>>
    ELSE Insert(SortList(SubSeq(s, 1, Len(s) - 1)), s[Len(s)])

\* list(set(s)) then sorted: ascending, duplicates removed
RECURSIVE Dedup(_)
Dedup(s) ==
    IF Len(s) <= 1 THEN s
    ELSE IF s[1] = s[2] THEN Dedup(Tail(s))
    ELSE <<s[1]>> \o Dedup(Tail(s))

SortedSet(s) == Dedup(SortList(s))

IsAscending(s) == \A i \in 1..Len(s) - 1 : s[i] < s[i + 1]

(***************************************************************************)
(* parse_ports.  A port spec is the string cut at its delimiters: form is  *)
(* "csv" when it holds a comma, else "dash" when it holds a dash, else     *)
(* "single"; toks are the stripped pieces.  A piece is an integer literal, *)
(* empty, or anything else (int() raises ValueError).                      *)
(***************************************************************************)
IntTok(v) == [kind |-> "int", val |-> v]

BadTok == [kind |-> "bad", val |-> 0]

EmptyTok == [kind |-> "empty", val |-> 0]

\* int(p) raises ValueError
IntRaises(tok) == tok.kind # "int"

Ok(v) == [ok |-> TRUE, val |-> v]

Raise == [ok |-> FALSE, val |-> <<>>]

parse_ports(spec) ==
    CASE spec.form = "csv" ->
            LET kept == SelectSeq(spec.toks, LAMBDA p : p.kind # "empty")
            IN  IF \E i \in 1..Len(kept) : IntRaises(kept[i]) THEN Raise
                ELSE Ok(SortedSet([i \in 1..Len(kept) |-> kept[i].val]))
      [] spec.form = "dash" ->
            IF Len(spec.toks) # 2 THEN Raise
            ELSE IF IntRaises(spec.toks[1]) \/ IntRaises(spec.toks[2]) THEN Raise
            ELSE LET a == spec.toks[1].val
                     b == spec.toks[2].val
                 IN  Ok(RangeList(Min(a, b), Max(a, b)))
      [] OTHER ->
            IF IntRaises(spec.toks[1]) THEN Raise
            ELSE Ok(<<spec.toks[1].val>>)

\* the port specs explored
PortVals == {0, 22, 23, 24, 70000}

PortTokens == {IntTok(v) : v \in PortVals} \cup {BadTok, EmptyTok}

SeqsUpTo(S, lo, hi) == UNION {[1..n -> S] : n \in lo..hi}

PortSpecs ==
    {[form |-> "csv", toks |-> t] : t \in SeqsUpTo(PortTokens, 2, MaxTokens)}
    \cup {[form |-> "dash", toks |-> t] :
            t \in {u \in SeqsUpTo(PortTokens, 2, 3) :
                      \/ Len(u) # 2
                      \/ IntRaises(u[1]) \/ IntRaises(u[2])
                      \/ (u[1].val - u[2].val \in (0 - MaxSpan)..MaxSpan)}}
    \cup {[form |-> "single", toks |-> <<t>>] : t \in PortTokens}

\* the port lists parse_ports hands to the scan
PortLists == {parse_ports(s).val : s \in {u \in PortSpecs : parse_ports(u).ok}}

Platforms == {"windows", "linux"}

\* an IPv4 address string, as its dot-separated integers
Ip(a, b, c, d) == <<a, b, c, d>>

(***************************************************************************)
(* Sockets.  A peer's reply to a connect: "silent" is a peer that never    *)
(* answers (the socket timeout ends the call), "denied" is socket() or     *)
(* settimeout() raising.                                                   *)
(***************************************************************************)
ConnectReplies ==
    {"established", "refused", "reset", "unreachable", "silent", "denied"}

\* what is_host_up holds after one attempt: res, or the exception caught
Res(code) == [raised |-> FALSE, code |-> code]

RaisedRes == [raised |-> TRUE, code |-> 0]

\* the errno connect_ex returns on each platform
connect_ex(plat, reply) ==
    CASE reply = "established" -> 0
      [] reply = "refused" -> IF plat = "windows" THEN 10061 ELSE 111
      [] reply = "reset" -> IF plat = "windows" THEN 10054 ELSE 104
      [] reply = "unreachable" -> IF plat = "windows" THEN 10065 ELSE 113
      [] OTHER -> IF plat = "windows" THEN 10035 ELSE 11

\* replies the network can give for a port: no connection is ever established
\* to a port number outside 1..65535
RepliesFor(port) ==
    IF port \in 1..65535 THEN ConnectReplies
    ELSE ConnectReplies \ {"established"}

(***************************************************************************)
(* _check_port: the value a future ends up holding.                        *)
(***************************************************************************)
Value(v) == [kind |-> "value", val |-> v]

NoValue == [kind |-> "none", val |-> 0]

Exc == [kind |-> "raise", val |-> 0]

\* _check_port without its except clause
CheckPortNoExcept(plat, port, reply) ==
    IF reply = "denied" \/ port \notin 0..65535 THEN Exc
    ELSE IF connect_ex(plat, reply) = 0 THEN Value(port) ELSE NoValue

_check_port(plat, port, reply) ==
    IF reply = "denied" THEN NoValue              \* socket()/settimeout raised
    ELSE IF port \notin 0..65535 THEN NoValue    \* connect_ex: OverflowError
    ELSE IF connect_ex(plat, reply) = 0 THEN Value(port) ELSE NoValue

(***************************************************************************)
(* scan_tcp_ports.                                                         *)
(***************************************************************************)
NewFuture == [st |-> "new", reply |-> "none", res |-> NoValue, att |-> 0]

InFlight == {i \in 1..Len(futures) : futures[i].st = "running"}

Queued == {i \in 1..Len(futures) : futures[i].st = "queued"}

AllDone == \A i \in 1..Len(futures) : futures[i].st = "done"

MaxWorkersOf(workers, plist) == Min(workers, Max(1, Len(plist)))

\* line 222 left out: the list stays in completion order
NoSort(s) == s

\* line 222: open_ports.sort()
sort_open_ports(s) == SortList(s)

\* lines 209-213
ScEnter ==
    /\ sc_pc = "entry"
    /\ IF sc_ports = <<>>
       THEN /\ sc_pc' = "returned"
            /\ sc_ret' = <<>>
            /\ UNCHANGED <<max_workers, futures, open_ports>>
       ELSE /\ sc_pc' = "pool"
            /\ max_workers' = MaxWorkersOf(sc_workers, sc_ports)
            /\ open_ports' = <<>>
            /\ futures' = [i \in 1..Len(sc_ports) |-> NewFuture]
            /\ UNCHANGED sc_ret
    /\ UNCHANGED <<sc_ip, sc_ports, sc_workers, yielded, sc_exc>>
    /\ UNCHANGED <<argVars, mainVars, liveVars, net>>

\* line 215: ThreadPoolExecutor(max_workers) raises ValueError unless > 0
ScPool ==
    /\ sc_pc = "pool"
    /\ sc_pc' = IF max_workers <= 0 THEN "raised" ELSE "submit"
    /\ UNCHANGED <<sc_ip, sc_ports, sc_workers, max_workers, futures, yielded,
                   open_ports, sc_exc, sc_ret>>
    /\ UNCHANGED <<argVars, mainVars, liveVars, net>>

\* line 216: the next ex.submit of the list comprehension
ScSubmit ==
    /\ sc_pc = "submit"
    /\ LET k == CHOOSE i \in 1..Len(futures) :
                    /\ futures[i].st = "new"
                    /\ \A j \in 1..(i - 1) : futures[j].st # "new"
       IN  /\ futures' = [futures EXCEPT ![k].st = "queued"]
           /\ sc_pc' = IF k = Len(futures) THEN "collect" ELSE "submit"
    /\ UNCHANGED <<sc_ip, sc_ports, sc_workers, max_workers, yielded,
                   open_ports, sc_exc, sc_ret>>
    /\ UNCHANGED <<argVars, mainVars, liveVars, net>>

\* a pool thread takes the oldest queued work item and calls _check_port
ScStart ==
    /\ sc_pc \in {"submit", "collect", "exit"}
    /\ Queued # {}
    /\ Cardinality(InFlight) < max_workers
    /\ LET i == CHOOSE q \in Queued : \A r \in Queued : q <= r
       IN  futures' = [futures EXCEPT ![i].st = "running",
                                      ![i].att = futures[i].att + 1]
    /\ net' = TRUE
    /\ UNCHANGED <<sc_pc, sc_ip, sc_ports, sc_workers, max_workers, yielded,
                   open_ports, sc_exc, sc_ret>>
    /\ UNCHANGED <<argVars, mainVars, liveVars>>

\* lines 197-204: the call of _check_port in a pool thread ends
ScFinish(i, reply) ==
    /\ sc_pc \in {"submit", "collect", "exit"}
    /\ i \in InFlight
    /\ reply \in RepliesFor(sc_ports[i])
    /\ futures' = [futures EXCEPT
                      ![i].st = "done",
                      ![i].reply = reply,
                      ![i].res = _check_port(platform, sc_ports[i], reply)]
    /\ UNCHANGED <<sc_pc, sc_ip, sc_ports, sc_workers, max_workers, yielded,
                   open_ports, sc_exc, sc_ret>>
    /\ UNCHANGED <<argVars, mainVars, liveVars, net>>

\* lines 217-220: as_completed yields a finished future; f.result() re-raises
\* what the call raised
ScCollect(i) ==
    /\ sc_pc = "collect"
    /\ i \in 1..Len(futures)
    /\ futures[i].st = "done"
    /\ i \notin Range(yielded)
    /\ yielded' = Append(yielded, i)
    /\ IF futures[i].res.kind = "raise"
       THEN /\ sc_exc' = TRUE
            /\ sc_pc' = "exit"
            /\ UNCHANGED open_ports
       ELSE /\ open_ports' = IF futures[i].res.kind = "value"
                             THEN Append(open_ports, futures[i].res.val)
                             ELSE open_ports
            /\ sc_pc' = IF Len(yielded) + 1 = Len(futures) THEN "exit"
                        ELSE "collect"
            /\ UNCHANGED sc_exc
    /\ UNCHANGED <<sc_ip, sc_ports, sc_workers, max_workers, futures, sc_ret>>
    /\ UNCHANGED <<argVars, mainVars, liveVars, net>>

\* lines 215, 222-223: the with block joins the pool threads, then the list is
\* sorted and returned (or the pending exception leaves the function)
ScExit ==
    /\ sc_pc = "exit"
    /\ AllDone
    /\ IF sc_exc
       THEN /\ sc_pc' = "raised"
            /\ UNCHANGED <<open_ports, sc_ret>>
       ELSE /\ sc_pc' = "returned"
            /\ open_ports' = sort_open_ports(open_ports)
            /\ sc_ret' = sort_open_ports(open_ports)
    /\ UNCHANGED <<sc_ip, sc_ports, sc_workers, max_workers, futures, yielded,
                   sc_exc>>
    /\ UNCHANGED <<argVars, mainVars, liveVars, net>>

NoHost == [ip |-> <<>>, mac |-> None, hostname |-> None, os |-> None,
           open_ports |-> <<>>]

NoNmap == [status |-> "none", os_guess |-> None, svc_map |-> <<>>]

NoArgs == [ports |-> [form |-> "single", toks |-> <<EmptyTok>>],
           host |-> [mode |-> "host", ip |-> <<>>, right |-> EmptyTok, prefix |-> 0],
           workers |-> 0]

MainIdle ==
    /\ pc = "idle"
    /\ ports = <<>>
    /\ targets = <<>>
    /\ t_i = 0
    /\ host = NoHost
    /\ dns = "none"
    /\ m_open_ports = <<>>
    /\ nm = NoNmap
    /\ results = <<>>
    /\ report = <<>>
    /\ gate = <<>>
    /\ scanned = {}

LiveIdle ==
    /\ lv_pc = "idle"
    /\ lv_ip = <<>>
    /\ lv_i = 0
    /\ lv_res = Res(0)
    /\ lv_reply = "none"
    /\ lv_ret = FALSE

ScanIdle ==
    /\ sc_pc = "idle"
    /\ sc_ip = <<>>
    /\ sc_ports = <<>>
    /\ sc_workers = 0
    /\ max_workers = 0
    /\ futures = <<>>
    /\ yielded = <<>>
    /\ open_ports = <<>>
    /\ sc_exc = FALSE
    /\ sc_ret = <<>>

\* a call scan_tcp_ports(ip, ports, timeout, workers)
ScanCalled(ip, plist, workers) ==
    /\ sc_pc = "entry"
    /\ sc_ip = ip
    /\ sc_ports = plist
    /\ sc_workers = workers
    /\ max_workers = 0
    /\ futures = <<>>
    /\ yielded = <<>>
    /\ open_ports = <<>>
    /\ sc_exc = FALSE
    /\ sc_ret = <<>>

ScanInit ==
    /\ args = NoArgs
    /\ platform \in Platforms
    /\ net = FALSE
    /\ MainIdle
    /\ LiveIdle
    /\ \E plist \in PortLists, w \in 0..MaxWorkersArg :
          ScanCalled(Ip(10, 0, 0, 1), plist, w)

ScanNext ==
    \/ ScEnter
    \/ ScPool
    \/ ScSubmit
    \/ ScStart
    \/ \E i \in 1..Len(futures), reply \in ConnectReplies : ScFinish(i, reply)
    \/ \E i \in 1..Len(futures) : ScCollect(i)
    \/ ScExit

SpecScan == ScanInit /\ [][ScanNext]_vars
(***************************************************************************)
(* is_host_up.                                                             *)
(***************************************************************************)
common_ports == <<80, 443, 22, 445, 3389>>

\* line 162: res in (0, 10061)
Reachable(res) == ~res.raised /\ res.code \in {0, 10061}

\* the value is_host_up holds after one attempt
Attempt(plat, reply) ==
    IF reply = "denied" THEN RaisedRes ELSE Res(connect_ex(plat, reply))

\* lines 156-166: one pass of the loop body, and the return that follows it
LvProbe(reply) ==
    /\ lv_pc = "probing"
    /\ reply \in RepliesFor(common_ports[lv_i])
    /\ lv_reply' = reply
    /\ lv_res' = Attempt(platform, reply)
    /\ net' = TRUE
    /\ IF Reachable(Attempt(platform, reply))
       THEN /\ lv_pc' = "returned"
            /\ lv_ret' = TRUE
            /\ UNCHANGED lv_i
       ELSE IF lv_i = Len(common_ports)
       THEN /\ lv_pc' = "returned"
            /\ lv_ret' = FALSE
            /\ UNCHANGED lv_i
       ELSE /\ lv_i' = lv_i + 1
            /\ UNCHANGED <<lv_pc, lv_ret>>
    /\ UNCHANGED lv_ip
    /\ UNCHANGED <<argVars, mainVars, scanVars>>

\* a call is_host_up(ip, timeout)
LiveCalled(ip) ==
    /\ lv_pc = "probing"
    /\ lv_ip = ip
    /\ lv_i = 1
    /\ lv_res = Res(0)
    /\ lv_reply = "none"
    /\ lv_ret = FALSE

LiveIps == {Ip(10, 0, 0, d) : d \in 1..3}

LiveInit ==
    /\ args = NoArgs
    /\ platform \in Platforms
    /\ net = FALSE
    /\ MainIdle
    /\ ScanIdle
    /\ \E ip \in LiveIps : LiveCalled(ip)

LiveNext == \E reply \in ConnectReplies : LvProbe(reply)

SpecLive == LiveInit /\ [][LiveNext]_vars
(***************************************************************************)
(* Target expansion.  An address string is the sequence of its             *)
(* dot-separated integers; ipaddress works on the 32-bit value.            *)
(***************************************************************************)
\* ipaddress.ip_address(ip) does not raise
ValidIp(o) == Len(o) = 4 /\ \A i \in 1..4 : o[i] \in 0..255

\* int(IPv4Address(s))
IpToInt(o) == ((o[1] * 256 + o[2]) * 256 + o[3]) * 256 + o[4]

\* str(IPv4Address(n))
IntToIp(n) ==
    <<n \div 16777216, (n \div 65536) % 256, (n \div 256) % 256, n % 256>>

\* lines 94-98; spec.ip is the left part, spec.right the part after the dash
expand_range(spec) ==
    IF IntRaises(spec.right) THEN Raise
    ELSE LET start == spec.ip[4]
             end == spec.right.val
         IN  Ok([k \in 1..Max(0, end - start + 1) |->
                    <<spec.ip[1], spec.ip[2], spec.ip[3], start + k - 1>>])

\* IPv4Network.hosts() with the network address kept in the list
HostsWithNetwork(network, broadcast, addr, prefix) ==
    RangeList(network, broadcast - 1)

\* IPv4Network.hosts(): /31 yields both addresses, /32 the address itself
Hosts(network, broadcast, addr, prefix) ==
    IF prefix = 31 THEN <<network, broadcast>>
    ELSE IF prefix = 32 THEN <<addr>>
    ELSE RangeList(network + 1, broadcast - 1)

\* network address of ip_network(cidr, strict=False): host bits cleared
NetworkAddress(addr, prefix) == addr - (addr % Pow2(32 - prefix))

BroadcastAddress(addr, prefix) ==
    NetworkAddress(addr, prefix) + Pow2(32 - prefix) - 1

\* lines 106-107; spec.ip is the address part, spec.prefix the prefix length
expand_subnet(spec) ==
    IF ~ValidIp(spec.ip) \/ spec.prefix \notin 0..32 THEN Raise
    ELSE LET addr == IpToInt(spec.ip)
             hs == Hosts(NetworkAddress(addr, spec.prefix),
                         BroadcastAddress(addr, spec.prefix), addr, spec.prefix)
         IN  Ok([k \in 1..Len(hs) |-> IntToIp(hs[k])])

\* lines 314-319
ExpandTargets(spec) ==
    CASE spec.mode = "host" -> Ok(<<spec.ip>>)
      [] spec.mode = "subnet" -> expand_subnet(spec)
      [] OTHER -> expand_range(spec)

HostSpec(mode, ip, right, prefix) ==
    [mode |-> mode, ip |-> ip, right |-> right, prefix |-> prefix]

SubnetSpecs ==
    {HostSpec("subnet", Ip(10, 1, c, d), EmptyTok, p) :
        c \in {1, 256}, d \in 0..(Pow2(MaxHostBits + 1) - 1),
        p \in (32 - MaxHostBits)..33}

RangeSpecs ==
    {HostSpec("range", Ip(10, 0, c, 254), r, 0) :
        c \in {0, 300}, r \in {IntTok(253), IntTok(255), IntTok(256), BadTok}}

SingleSpecs ==
    {HostSpec("host", Ip(10, 0, 0, d), EmptyTok, 0) : d \in {1, 300}}

(***************************************************************************)
(* Collaborators of main: reverse DNS, the ARP cache, nmap.                *)
(***************************************************************************)
\* whether the blocking call carries a deadline: settimeout (lines 159, 201),
\* subprocess timeout=5 (line 179) and timeout=90 (line 253); gethostbyaddr
\* (line 140) is given none
HasDeadline(call) ==
    CASE call = "connect" -> TRUE
      [] call = "arp" -> TRUE
      [] call = "nmap" -> TRUE
      [] OTHER -> FALSE

\* a blocking call ends when its peer answers or its deadline expires
Completes(call, reply) == reply # "silent" \/ HasDeadline(call)

DnsReplies == {"name", "error", "silent"}

\* lines 137-142
resolve_hostname(reply) == IF reply = "name" THEN "host.example" ELSE None

ArpReplies == {"found", "absent", "silent"}

\* lines 173-190
get_mac_from_arp_cache(reply) ==
    IF reply = "found" THEN "aa-bb-cc-dd-ee-ff" ELSE None

\* what the nmap binary does: not installed, the run raising (not executable,
\* or TimeoutExpired after 90 s), or an output whose matching lines are given
NmapOut(details, running, lines) ==
    [installed |-> TRUE, raises |-> FALSE, details |-> details,
     running |-> running, lines |-> lines]

NmapMissing ==
    [installed |-> FALSE, raises |-> FALSE, details |-> None,
     running |-> None, lines |-> <<>>]

NmapRaises ==
    [installed |-> TRUE, raises |-> TRUE, details |-> None,
     running |-> None, lines |-> <<>>]

NmapReplies(plist) ==
    {NmapMissing, NmapRaises, NmapOut(None, None, <<>>)}
    \cup (IF plist = <<>> THEN {}
          ELSE {NmapOut(None, "Linux 5.X", <<<<plist[Len(plist)], "ssh">>>>),
                NmapOut("Linux 5.4", "Linux 5.X",
                        <<<<plist[1], "http">>, <<plist[1], "http-alt">>>>)})

NmapResult(status, os_guess, svc_map) ==
    [raised |-> FALSE, status |-> status, os_guess |-> os_guess,
     svc_map |-> svc_map]

\* nmap_service_and_os without the try/except around subprocess.run
NmapNoExcept(plist, reply) ==
    IF plist = <<>> THEN NmapResult("skipped", None, <<>>)
    ELSE IF ~reply.installed THEN NmapResult("missing", None, <<>>)
    ELSE IF reply.raises
    THEN [raised |-> TRUE, status |-> "raised", os_guess |-> None,
          svc_map |-> <<>>]
    ELSE NmapResult("ran",
                    IF reply.details # None THEN reply.details
                    ELSE reply.running,
                    reply.lines)

\* lines 235-275
nmap_service_and_os(plist, reply) ==
    IF plist = <<>> THEN NmapResult("skipped", None, <<>>)
    ELSE IF ~reply.installed THEN NmapResult("missing", None, <<>>)
    ELSE IF reply.raises THEN NmapResult("raised", None, <<>>)
    ELSE NmapResult("ran",
                    IF reply.details # None THEN reply.details
                    ELSE reply.running,
                    reply.lines)

\* lines 344-348: the first name svc_map gives the port
RECURSIVE ServiceOf(_, _)
ServiceOf(svc_map, port) ==
    IF svc_map = <<>> THEN None
    ELSE IF Head(svc_map)[1] = port THEN Head(svc_map)[2]
    ELSE ServiceOf(Tail(svc_map), port)

PortInfo(port, service) == [port |-> port, proto |-> "tcp", service |-> service]

HostInfo(ip) == [NoHost EXCEPT !.ip = ip]

\* lines 343-349
JoinServices(plist, svc_map) ==
    [k \in 1..Len(plist) |-> PortInfo(plist[k], ServiceOf(svc_map, plist[k]))]

(***************************************************************************)
(* main.                                                                   *)
(***************************************************************************)
\* line 329 with every target passing the gate
NeverSkipped(up) == FALSE

\* line 329: if not is_host_up(...): continue
HostIsSkipped(up) == ~up

\* line 312
MParse ==
    /\ pc = "start"
    /\ LET r == parse_ports(args.ports)
       IN  /\ pc' = IF r.ok THEN "expand" ELSE "failed"
           /\ ports' = r.val
    /\ UNCHANGED <<targets, t_i, host, dns, m_open_ports, nm, results, report,
                   gate, scanned>>
    /\ UNCHANGED <<argVars, liveVars, scanVars, net>>

\* lines 314-321
MExpand ==
    /\ pc = "expand"
    /\ LET r == ExpandTargets(args.host)
       IN  /\ pc' = IF r.ok THEN "loop" ELSE "failed"
           /\ targets' = r.val
    /\ t_i' = 1
    /\ results' = <<>>
    /\ UNCHANGED <<ports, host, dns, m_open_ports, nm, report, gate, scanned>>
    /\ UNCHANGED <<argVars, liveVars, scanVars, net>>

\* lines 323-329: the next target; an invalid address is passed over, a valid
\* one is handed to is_host_up
MLoop ==
    /\ pc = "loop"
    /\ t_i <= Len(targets)
    /\ IF ~ValidIp(targets[t_i])
       THEN /\ gate' = Append(gate, "invalid")
            /\ t_i' = t_i + 1
            /\ UNCHANGED <<pc, liveVars>>
       ELSE /\ pc' = "live"
            /\ lv_pc' = "probing"
            /\ lv_ip' = targets[t_i]
            /\ lv_i' = 1
            /\ lv_res' = Res(0)
            /\ lv_reply' = "none"
            /\ lv_ret' = FALSE
            /\ UNCHANGED <<gate, t_i>>
    /\ UNCHANGED <<ports, targets, host, dns, m_open_ports, nm, results,
                   report, scanned>>
    /\ UNCHANGED <<argVars, scanVars, net>>

\* lines 329-333: is_host_up has returned; a live host gets its HostInfo and
\* the reverse lookup is issued
MLive ==
    /\ pc = "live"
    /\ lv_pc = "returned"
    /\ IF HostIsSkipped(lv_ret)
       THEN /\ gate' = Append(gate, IF lv_ret THEN "up" ELSE "down")
            /\ t_i' = t_i + 1
            /\ pc' = "loop"
            /\ UNCHANGED <<host, dns, net>>
       ELSE /\ gate' = Append(gate, IF lv_ret THEN "up" ELSE "down")
            /\ host' = HostInfo(targets[t_i])
            /\ dns' \in DnsReplies
            /\ net' = TRUE
            /\ pc' = "resolve"
            /\ UNCHANGED t_i
    /\ lv_pc' = "idle"
    /\ lv_ip' = <<>>
    /\ lv_i' = 0
    /\ lv_res' = Res(0)
    /\ lv_reply' = "none"
    /\ lv_ret' = FALSE
    /\ UNCHANGED <<ports, targets, m_open_ports, nm, results, report, scanned>>
    /\ UNCHANGED <<argVars, scanVars>>

\* lines 333-335: gethostbyaddr has ended; scan_tcp_ports is called
MResolve ==
    /\ pc = "resolve"
    /\ Completes("gethostbyaddr", dns)
    /\ host' = [host EXCEPT !.hostname = resolve_hostname(dns)]
    /\ dns' = "none"
    /\ pc' = "scan"
    /\ scanned' = scanned \cup {host.ip}
    /\ sc_pc' = "entry"
    /\ sc_ip' = host.ip
    /\ sc_ports' = ports
    /\ sc_workers' = args.workers
    /\ UNCHANGED <<max_workers, futures, yielded, open_ports, sc_exc, sc_ret>>
    /\ UNCHANGED <<ports, targets, t_i, m_open_ports, nm, results, report, gate>>
    /\ UNCHANGED <<argVars, liveVars, net>>

\* line 335: scan_tcp_ports has returned, or its exception leaves main
MScan ==
    /\ pc = "scan"
    /\ sc_pc \in {"returned", "raised"}
    /\ pc' = IF sc_pc = "raised" THEN "crashed" ELSE "arp"
    /\ m_open_ports' = IF sc_pc = "raised" THEN m_open_ports ELSE sc_ret
    /\ sc_pc' = "idle"
    /\ sc_ip' = <<>>
    /\ sc_ports' = <<>>
    /\ sc_workers' = 0
    /\ max_workers' = 0
    /\ futures' = <<>>
    /\ yielded' = <<>>
    /\ open_ports' = <<>>
    /\ sc_exc' = FALSE
    /\ sc_ret' = <<>>
    /\ UNCHANGED <<ports, targets, t_i, host, dns, nm, results, report, gate,
                   scanned>>
    /\ UNCHANGED <<argVars, liveVars, net>>

\* line 338
MArp(reply) ==
    /\ pc = "arp"
    /\ reply \in ArpReplies
    /\ Completes("arp", reply)
    /\ host' = [host EXCEPT !.mac = get_mac_from_arp_cache(reply)]
    /\ pc' = "nmap"
    /\ UNCHANGED <<ports, targets, t_i, dns, m_open_ports, nm, results, report,
                   gate, scanned>>
    /\ UNCHANGED <<argVars, liveVars, scanVars, net>>

\* lines 340-351: the nmap call ends, its answer is joined onto the open
\* ports and the host is appended
MNmap(reply) ==
    /\ pc = "nmap"
    /\ reply \in NmapReplies(m_open_ports)
    /\ Completes("nmap", IF reply.raises THEN "silent" ELSE "answer")
    /\ LET r == nmap_service_and_os(m_open_ports, reply)
           h == [host EXCEPT !.os = r.os_guess,
                             !.open_ports = JoinServices(m_open_ports, r.svc_map)]
       IN  /\ nm' = [status |-> r.status, os_guess |-> r.os_guess,
                     svc_map |-> r.svc_map]
           /\ IF r.raised
              THEN /\ pc' = "crashed"
                   /\ UNCHANGED <<host, results, t_i>>
              ELSE /\ pc' = "loop"
                   /\ host' = h
                   /\ results' = Append(results, h)
                   /\ t_i' = t_i + 1
    /\ UNCHANGED <<ports, targets, dns, m_open_ports, report, gate, scanned>>
    /\ UNCHANGED <<argVars, liveVars, scanVars, net>>

\* line 353
MPrint ==
    /\ pc = "loop"
    /\ t_i > Len(targets)
    /\ report' = results
    /\ pc' = "done"
    /\ UNCHANGED <<ports, targets, t_i, host, dns, m_open_ports, nm, results,
                   gate, scanned>>
    /\ UNCHANGED <<argVars, liveVars, scanVars, net>>

\* the command lines explored
MainPortSpecs ==
    {[form |-> "single", toks |-> <<t>>] :
        t \in {IntTok(22), IntTok(0), IntTok(70000), BadTok}}
    \cup {[form |-> "csv", toks |-> t] :
            t \in {<<IntTok(23), IntTok(22)>>, <<EmptyTok, EmptyTok>>,
                   <<IntTok(22), BadTok>>}}
    \cup {[form |-> "dash", toks |-> t] :
            t \in {<<IntTok(23), IntTok(22)>>, <<IntTok(22), EmptyTok>>}}

MainSubnetSpecs ==
    {HostSpec("subnet", Ip(10, 1, 1, 5), EmptyTok, p) : p \in 30..33}

MainHostSpecs == SingleSpecs \cup RangeSpecs \cup MainSubnetSpecs

MainStart ==
    /\ pc = "start"
    /\ ports = <<>>
    /\ targets = <<>>
    /\ t_i = 0
    /\ host = NoHost
    /\ dns = "none"
    /\ m_open_ports = <<>>
    /\ nm = NoNmap
    /\ results = <<>>
    /\ report = <<>>
    /\ gate = <<>>
    /\ scanned = {}

MainInit ==
    /\ \E p \in MainPortSpecs, h \in MainHostSpecs, w \in 0..MaxWorkersArg :
          args = [ports |-> p, host |-> h, workers |-> w]
    /\ platform \in Platforms
    /\ net = FALSE
    /\ MainStart
    /\ LiveIdle
    /\ ScanIdle

MainNext ==
    \/ MParse
    \/ MExpand
    \/ MLoop
    \/ MLive
    \/ MResolve
    \/ MScan
    \/ \E reply \in ArpReplies : MArp(reply)
    \/ \E reply \in NmapReplies(m_open_ports) : MNmap(reply)
    \/ MPrint
    \/ LiveNext
    \/ ScanNext

SpecMain == MainInit /\ [][MainNext]_vars

(***************************************************************************)
(* expand_subnet on its own: main, stopped after line 319, over the        *)
(* subnets of SubnetSpecs.                                                 *)
(***************************************************************************)
SubnetInit ==
    /\ \E h \in SubnetSpecs : args = [NoArgs EXCEPT !.host = h]
    /\ platform \in Platforms
    /\ net = FALSE
    /\ pc = "expand"
    /\ ports = <<>>
    /\ targets = <<>>
    /\ t_i = 0
    /\ host = NoHost
    /\ dns = "none"
    /\ m_open_ports = <<>>
    /\ nm = NoNmap
    /\ results = <<>>
    /\ report = <<>>
    /\ gate = <<>>
    /\ scanned = {}
    /\ LiveIdle
    /\ ScanIdle

SubnetNext == MExpand

SpecSubnet == SubnetInit /\ [][SubnetNext]_vars
(***************************************************************************)
(* Properties of scan_tcp_ports (SpecScan).                                *)
(***************************************************************************)
Started == sc_pc \in {"pool", "submit", "collect", "exit", "returned", "raised"}

Finished == {i \in 1..Len(futures) : futures[i].st = "done"}

\* the ports whose connect attempt was answered by an established connection
Established == {sc_ports[i] : i \in {j \in Finished : futures[j].reply = "established"}}

\* C1: for a non-empty port set and any worker count, the pool size is
\* min(workers, len(ports)), it is at least 1 and at most len(ports), and the
\* number of connect attempts in flight never exceeds it.
C1_InFlightWithinMaxConcurrency ==
    (Started /\ sc_ports # <<>>) =>
        /\ max_workers = Min(sc_workers, Len(sc_ports))
        /\ max_workers >= 1
        /\ max_workers <= Len(sc_ports)
        /\ Cardinality(InFlight) <= max_workers

\* C2: whatever the completion order, the returned list is strictly ascending
\* and holds exactly the ports whose connect attempt succeeded, each once.
C2_ResultSortedAndExact ==
    sc_pc = "returned" =>
        /\ IsAscending(sc_ret)
        /\ Range(sc_ret) = Established
        /\ Len(sc_ret) = Cardinality(Established)

\* three ports, two of them open and yielded in descending order, one closed
C2_Witness ==
    /\ sc_pc = "returned"
    /\ Len(sc_ret) = 2
    /\ Len(sc_ports) = 3
    /\ \E a, b \in 1..Len(yielded) :
          /\ a < b
          /\ sc_ports[yielded[a]] > sc_ports[yielded[b]]
          /\ futures[yielded[a]].reply = "established"
          /\ futures[yielded[b]].reply = "established"

\* C3: a scan makes exactly one connect attempt per port: never a second one
\* for a port, none left out when the scan ends (by return or by exception),
\* and on an empty port set it returns [] with no attempt and no future.
C3_OneAttemptPerPort ==
    /\ \A i \in 1..Len(futures) : futures[i].att <= 1
    /\ (sc_pc \in {"returned", "raised"} /\ sc_ports # <<>>) =>
          /\ Len(futures) = Len(sc_ports)
          /\ \A i \in 1..Len(futures) : futures[i].att = 1
    /\ (sc_pc = "returned" /\ sc_ports = <<>>) =>
          sc_ret = <<>> /\ futures = <<>> /\ ~net

\* C4: no connect attempt makes the scan raise: an attempt that fails in any
\* way, an exception included, leaves its future holding None, an established
\* one leaves it holding the port, the scan raises only before any attempt was
\* started, and what it returns is made of the established ports alone.
C4_AttemptFailuresAbsorbed ==
    /\ ~sc_exc
    /\ \A i \in Finished :
          futures[i].res = IF futures[i].reply = "established"
                           THEN Value(sc_ports[i]) ELSE NoValue
    /\ sc_pc = "raised" => \A i \in 1..Len(futures) : futures[i].att = 0
    /\ sc_pc = "returned" => Range(sc_ret) = Established

\* a returned scan with one attempt denied its socket, one timed out and one
\* established
C4_Witness ==
    /\ sc_pc = "returned"
    /\ \E i, j, k \in 1..Len(futures) :
          /\ futures[i].reply = "denied"
          /\ futures[j].reply = "silent"
          /\ futures[k].reply = "established"
          /\ sc_ret = <<sc_ports[k]>>

(***************************************************************************)
(* Properties of is_host_up (SpecLive).                                    *)
(***************************************************************************)
ProvesLive == {"established", "refused"}

\* C6: the five ports are probed in order, one at a time; the first attempt
\* that is established or refused ends the probe with True; False is returned
\* only after all five attempts, each of them timed out or unreachable.
C6_FirstAnswerDecides ==
    /\ (lv_pc = "probing" /\ lv_i > 1) => lv_reply \notin ProvesLive
    /\ lv_pc = "returned" =>
          /\ lv_ret <=> lv_reply \in ProvesLive
          /\ ~lv_ret => lv_i = 5 /\ lv_reply \in {"silent", "unreachable"}

(***************************************************************************)
(* Properties of main (SpecMain).                                          *)
(***************************************************************************)
InLoop == pc \in {"loop", "live", "resolve", "scan", "arp", "nmap", "done",
                  "crashed"}

\* the targets among the first n that passed the liveness gate, in order
RECURSIVE Admitted(_)
Admitted(n) ==
    IF n = 0 THEN <<>>
    ELSE IF gate[n] = "up" THEN Append(Admitted(n - 1), targets[n])
    ELSE Admitted(n - 1)

IpsOf(hs) == [k \in 1..Len(hs) |-> hs[k].ip]

\* C5: the host records are exactly the targets that passed the liveness
\* probe, each once and in target order; a target that failed it has no record
\* and is never port-scanned; the report holds the records of all of them.
C5_RecordsAreLiveTargetsInOrder ==
    InLoop =>
        /\ Len(gate) \in {t_i - 1, t_i}
        /\ IpsOf(results) = Admitted(t_i - 1)
        /\ scanned \subseteq {targets[k] : k \in {j \in 1..Len(gate) : gate[j] = "up"}}
        /\ pc = "done" =>
              /\ Len(gate) = Len(targets)
              /\ IpsOf(report) = Admitted(Len(targets))

\* a finished run over three targets: one down, then one up, then an invalid one
C5_Witness ==
    /\ pc = "done"
    /\ gate = <<"down", "up", "invalid">>
    /\ IpsOf(report) = <<targets[2]>>

Unavailable == nm.status \in {"missing", "raised"}

\* C7: when nmap is missing or its run fails or times out, the call yields
\* (None, []): the host's os stays None, every open port's service stays None,
\* the open ports are those the scan returned, the host is appended all the
\* same, main does not crash, and the report holds every record.
C7_FingerprintFailureAbsorbed ==
    /\ Unavailable => (pc # "crashed" /\ nm.os_guess = None /\ nm.svc_map = <<>>)
    /\ (Unavailable /\ pc \in {"loop", "live", "done"}) =>
          /\ results # <<>>
          /\ results[Len(results)] = host
          /\ host.os = None
          /\ \A k \in 1..Len(host.open_ports) : host.open_ports[k].service = None
          /\ [k \in 1..Len(host.open_ports) |-> host.open_ports[k].port] = m_open_ports
    /\ pc = "done" => (report = results /\ IpsOf(report) = Admitted(Len(targets)))

\* a finished run with two live hosts; the last one has two open ports and its
\* nmap run raised
C7_Witness ==
    /\ pc = "done"
    /\ nm.status = "raised"
    /\ Len(report) = 2
    /\ Len(report[2].open_ports) = 2
    /\ report[2].os = None

\* the port spec has a token that is no integer, or a port outside 1..65535
MalformedPorts(spec) ==
    \E i \in 1..Len(spec.toks) :
        \/ spec.toks[i].kind = "bad"
        \/ spec.toks[i].kind = "empty" /\ spec.form # "csv"
        \/ spec.toks[i].kind = "int" /\ spec.toks[i].val \notin 1..65535

\* the dash range has start > end, N outside 0..255 or an octet that yields an
\* invalid address
MalformedRange(spec) ==
    /\ spec.mode = "range"
    /\ \/ spec.right.kind # "int"
       \/ spec.right.val \notin 0..255
       \/ spec.ip[4] > spec.right.val
       \/ ~ValidIp(spec.ip)

\* C8: a malformed port spec or dash range makes the program fail before any
\* network call: no connect is ever attempted and the run never gets as far as
\* printing a report.
C8_MalformedInputFailsBeforeNetwork ==
    (MalformedPorts(args.ports) \/ MalformedRange(args.host)) =>
        (~net /\ pc # "done")

\* C10: every blocking call in flight has a deadline, so main is never left
\* waiting: until the report is printed (or the input rejected) a step of the
\* program is always possible.
C10_NoCallBlocksForever ==
    /\ pc = "resolve" => HasDeadline("gethostbyaddr")
    /\ pc = "arp" => HasDeadline("arp")
    /\ pc = "nmap" => HasDeadline("nmap")
    /\ (lv_pc = "probing" \/ InFlight # {}) => HasDeadline("connect")
    /\ pc \notin {"done", "failed"} => ENABLED MainNext

(***************************************************************************)
(* Properties of expand_subnet (SpecSubnet).                               *)
(***************************************************************************)
Expanded == pc = "loop" /\ args.host.mode = "subnet"

Cidr == args.host

NetworkIp == IntToIp(NetworkAddress(IpToInt(Cidr.ip), Cidr.prefix))

BroadcastIp == IntToIp(BroadcastAddress(IpToInt(Cidr.ip), Cidr.prefix))

ExcludesNetworkAndBroadcast ==
    NetworkIp \notin Range(targets) /\ BroadcastIp \notin Range(targets)

====
